---------------------------- MODULE Spec2Model ----------------------------
(* Model of detect_events in "Detect Heatwave Pollution Events.py":       *)
(* one call of the function, from its entry to its return or raise, one   *)
(* step per branch of the method dispatch, per iteration of the scan over *)
(* the mask, and for the closing of a trailing run.                       *)
EXTENDS Integers, Sequences, FiniteSets

VARIABLES
    series,               \* argument: the anomaly values
    time_index,           \* argument: the timestamps, aligned with series
    method,               \* argument
    pct,                  \* argument
    z_thresh,             \* argument
    min_duration_months,  \* argument
    defined,              \* names of the locals bound so far
    threshold,            \* local (percentile mode only)
    mask,                 \* local
    events,               \* local
    in_event,             \* local
    start_date,           \* local
    idx,                  \* local: next index of enumerate(mask), 0-based
    pc,                   \* "entry", "loop", "after_loop", "returned", "raised"
    result,               \* what the call handed to its caller
    script,               \* the analysis script that runs
    years,                \* the years of the merged yearly table
    sp,                   \* the step of the script to run next, from 1
    done,                 \* names of the steps that completed
    failed,               \* names of the steps that raised
    warned,               \* names of the steps whose failure was printed
    computed,             \* results computed, each with the years it used
    saved,                \* results written to an output file
    orders,               \* the SARIMAX orders bound in the modeling script
    status,               \* "running", "ended" (normally), "raised"
    exc,                  \* what a raised script ended with
    trend_len,            \* len(series) of a call of detect_trend
    label,                \* its argument label
    data_completeness,    \* its argument data_completeness
    mk_called,            \* whether mk.original_test has been called
    mk_result,            \* what mk.original_test returned
    trend_exc,            \* the exception its handler caught
    trend_pc,             \* "entry", "tested", "returned", "raised"
    trend_record          \* the record the call returned

args == <<series, time_index, method, pct, z_thresh, min_duration_months>>
locals == <<defined, threshold, mask, events, in_event, start_date, idx>>
script_vars == <<script, years, sp, done, failed, warned, computed, saved,
                 orders, status, exc>>
trend_vars == <<trend_len, label, data_completeness, mk_called, mk_result,
                trend_exc, trend_pc, trend_record>>
vars == <<series, time_index, method, pct, z_thresh, min_duration_months,
          defined, threshold, mask, events, in_event, start_date, idx, pc, result,
          script, years, sp, done, failed, warned, computed, saved, orders,
          status, exc, trend_len, label, data_completeness, mk_called,
          mk_result, trend_exc, trend_pc, trend_record>>

----------------------------------------------------------------------------
(* Bounds of the enumerated inputs *)

MaxLen == 4
MaxVal == 0
MaxMissing == 1
MaxMinDur == 3

\* the default of pct in the signature of detect_events, and LST_pct, AOD_pct
DefaultPct == 90

\* anomalies: deviations from the mean, of either sign (lines 43-47)
Values == (-1)..MaxVal
Methods == {"percentile", "zscore", "iqr"}
Pcts == {0, 50, DefaultPct, 100}
ZThreshs == {-1, 0}
MinDurs == 1..MaxMinDur

----------------------------------------------------------------------------
(* Timestamps: pandas Timestamps on the first day of a month (line 27),   *)
(* kept as year and month.                                                 *)

None == [year |-> 0, month |-> 0]

\* Timestamp.to_period('M'): the monthly period, as its ordinal
to_period_M(ts) == (ts.year - 1970) * 12 + (ts.month - 1)

\* pd.to_datetime(dict(year=..., month=..., day=1)) of the month o months
\* after January 2017, the first month of the input files
MonthStamp(o) == [year |-> 2017 + (o \div 12), month |-> (o % 12) + 1]

\* the k-th smallest element of a finite set of integers (df.sort_index())
KthOf(S, k) == CHOOSE x \in S : Cardinality({y \in S : y <= x}) = k

\* the sorted index of a frame with rows for the months in S
SortedIndex(S) == [k \in 1..Cardinality(S) |-> MonthStamp(KthOf(S, k))]

\* the months the input files may hold rows for, for a frame of n rows:
\* the n months from November 2017 on, and up to MaxMissing later ones
MonthPool(n) == 10..(10 + n - 1 + MaxMissing)

TimeIndexes(n) ==
    {SortedIndex(S) : S \in {T \in SUBSET MonthPool(n) : Cardinality(T) = n}}

----------------------------------------------------------------------------
(* Python and numpy primitives used by detect_events *)

\* seq[i] of Python, i 0-based, negative i counted from the end
PyIndex(seq, i) == IF i >= 0 THEN seq[i + 1] ELSE seq[Len(seq) + i + 1]

\* the k-th smallest entry (k from 1) of a non-empty sequence
SortedAt(s, k) ==
    CHOOSE v \in {s[i] : i \in 1..Len(s)} :
        /\ Cardinality({i \in 1..Len(s) : s[i] < v}) < k
        /\ Cardinality({i \in 1..Len(s) : s[i] <= v}) >= k

\* np.percentile(s, q), linear interpolation, of a non-empty s, times 100:
\* the virtual index is q/100 * (n-1); lo is its floor, r/100 its fraction
Percentile100(s, q) ==
    LET n == Len(s)
        lo == (q * (n - 1)) \div 100
        r == (q * (n - 1)) % 100
        hi == IF lo + 1 <= n - 1 THEN lo + 1 ELSE n - 1
        a == SortedAt(s, lo + 1)
        b == SortedAt(s, hi + 1)
    IN 100 * a + r * (b - a)

\* a threshold: x100 is the value times 100; nan is numpy's NaN
NaN == [nan |-> TRUE, x100 |-> 0]
Num100(x) == [nan |-> FALSE, x100 |-> x]

\* v > th of numpy: false against NaN
GreaterEq(v, th) == ~th.nan /\ 100 * v >= th.x100
Greater(v, th) == ~th.nan /\ 100 * v > th.x100

\* series > th, elementwise (lines 53 and 55)
MaskOfTwoSided(s, th) ==
    [i \in 1..Len(s) |-> Greater(s[i], th) \/ Greater(0 - s[i], th)]
MaskOf(s, th) == [i \in 1..Len(s) |-> Greater(s[i], th)]

\* (end_date.to_period('M') - start_date.to_period('M')).n + 1 (lines 69, 77)
DurationNoPlusOne(start, end) == to_period_M(end) - to_period_M(start)
Duration(start, end) == (to_period_M(end) - to_period_M(start)) + 1

\* duration >= min_duration_months (lines 70, 78)
KeepStrict(duration, min_dur) == duration > min_dur
Keep(duration, min_dur) == duration >= min_dur

\* events after the candidate (start, end) is closed (lines 69-71, 77-79)
ClosedUnfiltered(evs, start, end, min_dur) ==
    Append(evs, <<start, end, Duration(start, end)>>)
Closed(evs, start, end, min_dur) ==
    IF Keep(Duration(start, end), min_dur)
    THEN Append(evs, <<start, end, Duration(start, end)>>)
    ELSE evs

----------------------------------------------------------------------------
(* The call *)

NoResult == [kind |-> "none"]

\* no call of detect_trend is in progress
TrendIdle ==
    /\ trend_len = 0
    /\ label = ""
    /\ data_completeness = ""
    /\ mk_called = FALSE
    /\ mk_result = NoResult
    /\ trend_exc = ""
    /\ trend_pc = "idle"
    /\ trend_record = NoResult

\* the worked example of the detector: nine months from January 2017
ExampleSeries == <<0, 0, 5, 5, 5, 0, 0, 5, 0>>
ExampleIndex == [k \in 1..Len(ExampleSeries) |-> MonthStamp(k - 1)]

Init ==
    /\ \/ \E n \in 0..MaxLen :
            /\ series \in [1..n -> Values]
            /\ time_index \in TimeIndexes(n)
       \/ /\ series = ExampleSeries
          /\ time_index = ExampleIndex
    /\ method \in Methods
    /\ pct \in Pcts
    /\ z_thresh \in ZThreshs
    /\ min_duration_months \in MinDurs
    /\ defined = {}
    /\ threshold = NaN
    /\ mask = <<>>
    /\ events = <<>>
    /\ in_event = FALSE
    /\ start_date = None
    /\ idx = 0
    /\ pc = "entry"
    /\ result = NoResult
    /\ script = "none"
    /\ years = {}
    /\ sp = 0
    /\ done = {}
    /\ failed = {}
    /\ warned = {}
    /\ computed = {}
    /\ saved = {}
    /\ orders = "unbound"
    /\ status = "idle"
    /\ exc = "none"
    /\ TrendIdle

\* lines 59-61, with the scan started inside an event
StartScanInEvent(th_defined) ==
    /\ events' = <<>>
    /\ in_event' = TRUE
    /\ start_date' = None
    /\ idx' = 0
    /\ defined' = th_defined \cup {"mask", "events", "in_event", "start_date"}
    /\ pc' = "loop"
    /\ result' = result

\* lines 59-61, after the mask is bound
StartScan(th_defined) ==
    /\ events' = <<>>
    /\ in_event' = FALSE
    /\ start_date' = None
    /\ idx' = 0
    /\ defined' = th_defined \cup {"mask", "events", "in_event", "start_date"}
    /\ pc' = "loop"
    /\ result' = result

\* series in ascending order, as series.sort() leaves it
SortedSeries(s) == [k \in 1..Len(s) |-> SortedAt(s, k)]

\* lines 51-53 and 59-61, with the series sorted in place for the percentile
PercentileMaskSortsInput ==
    /\ pc = "entry"
    /\ method = "percentile"
    /\ Len(series) > 0
    /\ series' = SortedSeries(series)
    /\ threshold' = Num100(Percentile100(series', pct))
    /\ mask' = MaskOf(series', threshold')
    /\ StartScan({"threshold"})
    /\ UNCHANGED <<time_index, method, pct, z_thresh, min_duration_months>>
    /\ UNCHANGED <<script_vars, trend_vars>>

\* lines 54-55 and 59-61, with the mask taken against the percentile
ZscoreMaskUsesPct ==
    /\ pc = "entry"
    /\ method = "zscore"
    /\ mask' = IF Len(series) > 0
               THEN MaskOf(series, Num100(Percentile100(series, pct)))
               ELSE MaskOf(series, Num100(100 * z_thresh))
    /\ threshold' = threshold
    /\ StartScan({})
    /\ UNCHANGED args
    /\ UNCHANGED <<script_vars, trend_vars>>

\* lines 51-53 and 59-61, series not empty
PercentileMask ==
    /\ pc = "entry"
    /\ method = "percentile"
    /\ Len(series) > 0
    /\ threshold' = Num100(Percentile100(series, pct))
    /\ mask' = MaskOf(series, threshold')
    /\ StartScan({"threshold"})
    /\ UNCHANGED args
    /\ UNCHANGED <<script_vars, trend_vars>>

\* lines 51-53 and 59-61, series empty: np.percentile of an empty array is
\* NaN in the numpy releases that do not raise
PercentileEmptyNaN ==
    /\ pc = "entry"
    /\ method = "percentile"
    /\ Len(series) = 0
    /\ threshold' = NaN
    /\ mask' = MaskOf(series, threshold')
    /\ StartScan({"threshold"})
    /\ UNCHANGED args
    /\ UNCHANGED <<script_vars, trend_vars>>

\* line 52, series empty: np.percentile of an empty array raises IndexError
\* in the other numpy releases
PercentileEmptyRaise ==
    /\ pc = "entry"
    /\ method = "percentile"
    /\ Len(series) = 0
    /\ pc' = "raised"
    /\ result' = [kind |-> "raise", exc |-> "IndexError"]
    /\ UNCHANGED <<args, locals>>
    /\ UNCHANGED <<script_vars, trend_vars>>

\* lines 54-55 and 59-61
ZscoreMask ==
    /\ pc = "entry"
    /\ method = "zscore"
    /\ mask' = MaskOf(series, Num100(100 * z_thresh))
    /\ threshold' = threshold
    /\ StartScan({})
    /\ UNCHANGED args
    /\ UNCHANGED <<script_vars, trend_vars>>

\* lines 56-57
InvalidMethodAsZscore ==
    /\ pc = "entry"
    /\ method # "percentile"
    /\ method # "zscore"
    /\ mask' = MaskOf(series, Num100(100 * z_thresh))
    /\ threshold' = threshold
    /\ StartScan({})
    /\ UNCHANGED args
    /\ UNCHANGED <<script_vars, trend_vars>>
InvalidMethod ==
    /\ pc = "entry"
    /\ method # "percentile"
    /\ method # "zscore"
    /\ pc' = "raised"
    /\ result' = [kind |-> "raise", exc |-> "ValueError"]
    /\ UNCHANGED <<args, locals>>
    /\ UNCHANGED <<script_vars, trend_vars>>

\* the for statement of line 63: the next index, or the end of the loop
Advance ==
    /\ idx' = idx + 1
    /\ pc' = IF idx + 1 < Len(mask) THEN "loop" ELSE "after_loop"

\* line 63 over an empty mask: the body never runs
LoopEmpty ==
    /\ pc = "loop"
    /\ Len(mask) = 0
    /\ pc' = "after_loop"
    /\ UNCHANGED <<args, locals, result>>
    /\ UNCHANGED <<script_vars, trend_vars>>

\* lines 64-66
LoopOpenKeepsStart ==
    /\ pc = "loop"
    /\ idx < Len(mask)
    /\ mask[idx + 1] /\ ~in_event
    /\ in_event' = TRUE
    /\ start_date' = IF start_date = None THEN PyIndex(time_index, idx)
                     ELSE start_date
    /\ Advance
    /\ UNCHANGED <<args, defined, threshold, mask, events, result>>
    /\ UNCHANGED <<script_vars, trend_vars>>
LoopOpen ==
    /\ pc = "loop"
    /\ idx < Len(mask)
    /\ mask[idx + 1] /\ ~in_event
    /\ in_event' = TRUE
    /\ start_date' = PyIndex(time_index, idx)
    /\ Advance
    /\ UNCHANGED <<args, defined, threshold, mask, events, result>>
    /\ UNCHANGED <<script_vars, trend_vars>>

\* end_date of line 68, at index i of the scan
EndAtCurrent(ti, i) == PyIndex(ti, i)
EndAtPrevious(ti, i) == PyIndex(ti, i - 1)

\* lines 67-72
LoopCloseMerges ==
    /\ pc = "loop"
    /\ idx < Len(mask)
    /\ ~(mask[idx + 1] /\ ~in_event)
    /\ ~mask[idx + 1] /\ in_event
    /\ Advance
    /\ UNCHANGED <<args, defined, threshold, mask, events, in_event,
                   start_date, result>>
    /\ UNCHANGED <<script_vars, trend_vars>>
LoopClose ==
    /\ pc = "loop"
    /\ idx < Len(mask)
    /\ ~(mask[idx + 1] /\ ~in_event)
    /\ ~mask[idx + 1] /\ in_event
    /\ events' = Closed(events, start_date, EndAtPrevious(time_index, idx),
                        min_duration_months)
    /\ in_event' = FALSE
    /\ defined' = defined \cup {"end_date", "duration"}
    /\ Advance
    /\ UNCHANGED <<args, threshold, mask, start_date, result>>
    /\ UNCHANGED <<script_vars, trend_vars>>

\* line 63 when neither branch of lines 64 and 67 is taken; this variant
\* closes the run and opens another where a month is missing
LoopPassSplitsAtGap ==
    /\ pc = "loop"
    /\ idx < Len(mask)
    /\ ~(mask[idx + 1] /\ ~in_event)
    /\ ~(~mask[idx + 1] /\ in_event)
    /\ IF in_event /\ Duration(PyIndex(time_index, idx - 1),
                               PyIndex(time_index, idx)) > 2
       THEN /\ events' = Closed(events, start_date,
                                PyIndex(time_index, idx - 1),
                                min_duration_months)
            /\ start_date' = PyIndex(time_index, idx)
       ELSE UNCHANGED <<events, start_date>>
    /\ Advance
    /\ UNCHANGED <<args, defined, threshold, mask, in_event, result>>
    /\ UNCHANGED <<script_vars, trend_vars>>
LoopPass ==
    /\ pc = "loop"
    /\ idx < Len(mask)
    /\ ~(mask[idx + 1] /\ ~in_event)
    /\ ~(~mask[idx + 1] /\ in_event)
    /\ Advance
    /\ UNCHANGED <<args, defined, threshold, mask, events, in_event,
                   start_date, result>>
    /\ UNCHANGED <<script_vars, trend_vars>>

\* events at line 81 when in_event holds at line 75 (lines 76-79)
TrailingNotClosed(evs, start, ti, min_dur) == evs
TrailingClosed(evs, start, ti, min_dur) ==
    Closed(evs, start, PyIndex(ti, -1), min_dur)

\* lines 75-81, in_event true
ReturnTrailing ==
    /\ pc = "after_loop"
    /\ in_event
    /\ events' = TrailingClosed(events, start_date, time_index,
                                min_duration_months)
    /\ defined' = defined \cup {"end_date", "duration"}
    /\ result' = [kind |-> "return", events |-> events', mask |-> mask]
    /\ pc' = "returned"
    /\ UNCHANGED <<args, threshold, mask, in_event, start_date, idx>>
    /\ UNCHANGED <<script_vars, trend_vars>>

\* lines 75 and 81, in_event false
ReturnPlain ==
    /\ pc = "after_loop"
    /\ ~in_event
    /\ result' = [kind |-> "return", events |-> events, mask |-> mask]
    /\ pc' = "returned"
    /\ UNCHANGED <<args, locals>>
    /\ UNCHANGED <<script_vars, trend_vars>>

Next ==
    \/ PercentileMask
    \/ PercentileEmptyNaN
    \/ PercentileEmptyRaise
    \/ ZscoreMask
    \/ InvalidMethod
    \/ LoopEmpty
    \/ LoopOpen
    \/ LoopClose
    \/ LoopPass
    \/ ReturnTrailing
    \/ ReturnPlain

Spec == Init /\ [][Next]_vars

----------------------------------------------------------------------------
(* What the claims speak of, stated on the arguments and the result alone *)

Returned == pc = "returned"

\* t1 is an earlier month than t2
Before(t1, t2) ==
    \/ t1.year < t2.year
    \/ t1.year = t2.year /\ t1.month < t2.month

\* t lies in the interval [start, end] of the event e
Within(t, e) == ~Before(t, e[1]) /\ ~Before(e[2], t)

\* whole calendar months from t1 to t2, across year boundaries
MonthsFromTo(t1, t2) == (t2.year - t1.year) * 12 + (t2.month - t1.month)

NextMonth(t) ==
    IF t.month = 12 THEN [year |-> t.year + 1, month |-> 1]
    ELSE [year |-> t.year, month |-> t.month + 1]

\* consecutive entries are consecutive calendar months
GapFree(ti) == \A i \in 1..(Len(ti) - 1) : ti[i + 1] = NextMonth(ti[i])

\* a..b is a maximal run of true entries of m
IsRun(m, a, b) ==
    /\ a <= b
    /\ \A i \in a..b : m[i]
    /\ a = 1 \/ ~m[a - 1]
    /\ b = Len(m) \/ ~m[b + 1]

Runs(m) == {r \in (1..Len(m)) \X (1..Len(m)) : IsRun(m, r[1], r[2])}

\* the event e runs from the first to the last timestamp of the run r
Spans(e, r, ti) == e[1] = ti[r[1]] /\ e[2] = ti[r[2]]

\* the runs of m of at least min_dur entries, in order, as events
LongRuns(m, min_dur) == {r \in Runs(m) : r[2] - r[1] + 1 >= min_dur}
RunEvents(m, ti, min_dur) ==
    LET Q == LongRuns(m, min_dur)
        nth(k) == CHOOSE r \in Q : Cardinality({q \in Q : q[1] <= r[1]}) = k
    IN [k \in 1..Cardinality(Q) |->
            <<ti[nth(k)[1]], ti[nth(k)[2]], nth(k)[2] - nth(k)[1] + 1>>]

\* the threshold the mask is taken against, times 100, when it is a number
ThresholdIsNumber == method = "zscore" \/ ~threshold.nan
Threshold100 == IF method = "zscore" THEN 100 * z_thresh ELSE threshold.x100
Above(v) == ThresholdIsNumber /\ 100 * v > Threshold100

----------------------------------------------------------------------------
(* C1: over a gap-free monthly time_index, the returned events are exactly *)
(* the maximal runs of true mask entries of at least min_duration_months   *)
(* entries, each once, in order, as (first timestamp, last timestamp,      *)
(* number of entries), and nothing else.                                    *)
C1_EventsAreTheLongRuns ==
    (Returned /\ GapFree(time_index)) =>
        result.events = RunEvents(result.mask, time_index, min_duration_months)

\* a run is reported and another, shorter one is dropped
C1_Witness ==
    /\ Returned
    /\ GapFree(time_index)
    /\ Len(result.events) = 1
    /\ Cardinality(Runs(result.mask)) = 2
    /\ min_duration_months = 2

(* C2: with a method that is neither 'percentile' nor 'zscore' the call    *)
(* raises ValueError with no local bound (no threshold, mask or events),   *)
(* and it never returns.                                                    *)
C2_InvalidMethodRaises ==
    (method \notin {"percentile", "zscore"}) =>
        /\ pc \in {"entry", "raised"}
        /\ defined = {}
        /\ pc = "raised" => result = [kind |-> "raise", exc |-> "ValueError"]
        /\ pc = "entry" => result = NoResult

C2_Witness ==
    /\ pc = "raised"
    /\ method = "iqr"
    /\ Len(series) = MaxLen
    /\ result.exc = "ValueError"

(* C3: the returned mask is as long as series, and mask[i] is true exactly *)
(* when series[i] is strictly greater than the threshold; an entry equal   *)
(* to the threshold is false.                                               *)
C3_MaskIsStrictlyAbove ==
    Returned =>
        /\ Len(result.mask) = Len(series)
        /\ \A i \in 1..Len(series) : result.mask[i] <=> Above(series[i])
        /\ \A i \in 1..Len(series) :
              (ThresholdIsNumber /\ 100 * series[i] = Threshold100)
                  => ~result.mask[i]

\* one entry equal to the threshold, one above it
C3_Witness ==
    /\ Returned
    /\ \E i \in 1..Len(series) :
          ThresholdIsNumber /\ 100 * series[i] = Threshold100 /\ ~result.mask[i]
    /\ \E j \in 1..Len(series) : result.mask[j]

(* C4: the returned events are in strictly increasing order of start and   *)
(* do not overlap: each event ends strictly before the next one starts.    *)
C4_EventsOrderedDisjoint ==
    Returned =>
        \A k \in 1..(Len(result.events) - 1) :
            /\ Before(result.events[k][1], result.events[k + 1][1])
            /\ Before(result.events[k][2], result.events[k + 1][1])

C4_Witness == Returned /\ Len(result.events) >= 2

(* C5: every returned event has duration = (calendar month of end -        *)
(* calendar month of start) + 1, across year boundaries, and an event      *)
(* closed by a true-to-false transition at index i ends at time_index[i-1].*)
C5_DurationRule ==
    Returned =>
        \A k \in 1..Len(result.events) :
            result.events[k][3] =
                MonthsFromTo(result.events[k][1], result.events[k][2]) + 1

C5_ClosedAtPrevious ==
    (/\ pc = "loop"
     /\ idx >= 1
     /\ idx < Len(mask)
     /\ ~mask[idx + 1]
     /\ in_event
     /\ Len(events') = Len(events) + 1)
        => events'[Len(events')][2] = time_index[idx]

C5_DurationAndEnd == [](C5_DurationRule) /\ [][C5_ClosedAtPrevious]_vars

\* an event closed by a transition, from one year into the next
C5_Witness ==
    /\ Returned
    /\ Len(result.events) = 1
    /\ ~result.mask[Len(result.mask)]
    /\ result.events[1][1].year < result.events[1][2].year

(* C6: when the mask is true at the final index, the open run is closed    *)
(* with the last timestamp as its end and reported under the same duration *)
(* rule and the same filter; it is never lost.                              *)
TrailingStart(m) == CHOOSE a \in 1..Len(m) : IsRun(m, a, Len(m))
C6_TrailingRunClosed ==
    (Returned /\ Len(result.mask) > 0 /\ result.mask[Len(result.mask)]) =>
        LET n == Len(result.mask)
            first == time_index[TrailingStart(result.mask)]
            d == MonthsFromTo(first, time_index[n]) + 1
            evs == result.events
        IN IF d >= min_duration_months
           THEN Len(evs) >= 1 /\ evs[Len(evs)] = <<first, time_index[n], d>>
           ELSE \A k \in 1..Len(evs) : Before(evs[k][2], first)

\* a trailing run of two entries or more, reported after an earlier event
C6_Witness ==
    /\ Returned
    /\ Len(result.events) = 2
    /\ result.events[2][2] = time_index[Len(time_index)]
    /\ result.events[2][3] >= 2

(* C7: a maximal run whose duration is below min_duration_months yields no *)
(* event: none of its timestamps lies inside a returned event, in the      *)
(* middle of the series or at its end.                                      *)
C7_ShortRunYieldsNothing ==
    Returned =>
        \A r \in Runs(result.mask) :
            (MonthsFromTo(time_index[r[1]], time_index[r[2]]) + 1
                    < min_duration_months) =>
                \A i \in r[1]..r[2] : \A k \in 1..Len(result.events) :
                    ~Within(time_index[i], result.events[k])

\* a short run at the end, after a run that is reported
C7_Witness ==
    /\ Returned
    /\ Len(result.events) = 1
    /\ result.mask[Len(result.mask)]
    /\ Before(result.events[1][2], time_index[Len(time_index)])

(* C8: a mask with a single run of true entries, of exactly                *)
(* min_duration_months entries, yields exactly one event, from the run's   *)
(* first to its last timestamp; over a gap-free time_index its duration is *)
(* min_duration_months.                                                     *)
C8_RunOfExactlyMinDuration ==
    Returned =>
        \A r \in Runs(result.mask) :
            (Runs(result.mask) = {r} /\ r[2] - r[1] + 1 = min_duration_months)
                => /\ Len(result.events) = 1
                   /\ Spans(result.events[1], r, time_index)
                   /\ GapFree(time_index)
                        => result.events[1][3] = min_duration_months

C8_Witness ==
    /\ Returned
    /\ GapFree(time_index)
    /\ min_duration_months = MaxMinDur
    /\ \E r \in Runs(result.mask) :
          Runs(result.mask) = {r} /\ r[2] - r[1] + 1 = min_duration_months
    /\ Len(result.events) = 1

(* C9: runs separated by a false entry are never merged: no returned       *)
(* event's interval holds a timestamp whose mask entry is false, and two   *)
(* runs that both meet min_duration_months are two separate events.         *)
C9_RunsNeverMerged ==
    Returned =>
        /\ \A k \in 1..Len(result.events) : \A i \in 1..Len(result.mask) :
              ~result.mask[i] => ~Within(time_index[i], result.events[k])
        /\ \A r1, r2 \in Runs(result.mask) :
              (/\ r1 # r2
               /\ MonthsFromTo(time_index[r1[1]], time_index[r1[2]]) + 1
                    >= min_duration_months
               /\ MonthsFromTo(time_index[r2[1]], time_index[r2[2]]) + 1
                    >= min_duration_months)
                => \E k1, k2 \in 1..Len(result.events) :
                      /\ k1 # k2
                      /\ Spans(result.events[k1], r1, time_index)
                      /\ Spans(result.events[k2], r2, time_index)

\* two reported runs with one false entry between them
C9_Witness ==
    /\ Returned
    /\ Len(result.events) = 2
    /\ \E i \in 2..(Len(result.mask) - 1) :
          /\ ~result.mask[i]
          /\ result.events[1][2] = time_index[i - 1]
          /\ result.events[2][1] = time_index[i + 1]

(* C10: when no value of series is strictly above the threshold, in either *)
(* method, the call returns no event and a mask that is false everywhere.  *)
C10_NothingAboveNothingFlagged ==
    (Returned /\ \A i \in 1..Len(series) : ~Above(series[i])) =>
        /\ result.events = <<>>
        /\ \A i \in 1..Len(result.mask) : ~result.mask[i]

\* percentile mode at the maximum of a series that is not constant
C10_Witness ==
    /\ Returned
    /\ method = "percentile"
    /\ Len(series) = MaxLen
    /\ \E i, j \in 1..Len(series) : series[i] < series[j]
    /\ \A i \in 1..Len(series) : ~Above(series[i])
    /\ result.events = <<>>

(* C11: with an empty series and an empty time_index the call returns an   *)
(* empty event list and does not end in an error, in percentile mode as    *)
(* well as in zscore mode.                                                  *)
C11_EmptySeriesNoError ==
    (Len(series) = 0 /\ method \in {"percentile", "zscore"}) =>
        /\ pc # "raised"
        /\ Returned => result.events = <<>>

(* C12: for the series [0,0,5,5,5,0,0,5,0] of January to September, a      *)
(* threshold that 5 exceeds and 0 does not, and min_duration_months = 2,   *)
(* the call returns exactly the event (March, May, 3).                      *)
C12_WorkedExample ==
    (/\ Returned
     /\ series = ExampleSeries
     /\ time_index = ExampleIndex
     /\ min_duration_months = 2
     /\ Above(5) /\ ~Above(0)) =>
        result.events = << <<[year |-> 2017, month |-> 3],
                             [year |-> 2017, month |-> 5], 3>> >>

\* the example in percentile mode: the isolated entry of August is flagged
C12_Witness ==
    /\ Returned
    /\ series = ExampleSeries
    /\ time_index = ExampleIndex
    /\ min_duration_months = 2
    /\ method = "percentile"
    /\ Above(5) /\ ~Above(0)
    /\ result.mask[8]
    /\ Len(result.events) = 1

----------------------------------------------------------------------------
(* The outcome of a call as a function of its six arguments *)

\* the runs of m whose calendar duration is at least min_dur, in order
CalendarRunEvents(m, ti, min_dur) ==
    LET Q == {r \in Runs(m) : MonthsFromTo(ti[r[1]], ti[r[2]]) + 1 >= min_dur}
        nth(k) == CHOOSE r \in Q : Cardinality({q \in Q : q[1] <= r[1]}) = k
    IN [k \in 1..Cardinality(Q) |->
            <<ti[nth(k)[1]], ti[nth(k)[2]],
              MonthsFromTo(ti[nth(k)[1]], ti[nth(k)[2]]) + 1>>]

MaskFor(s, meth, q, z) ==
    IF meth = "zscore" THEN [i \in 1..Len(s) |-> s[i] > z]
    ELSE [i \in 1..Len(s) |-> 100 * s[i] > Percentile100(s, q)]

OutcomeOf(s, ti, meth, q, z, min_dur) ==
    [kind |-> "return",
     events |-> CalendarRunEvents(MaskFor(s, meth, q, z), ti, min_dur),
     mask |-> MaskFor(s, meth, q, z)]

(* C13: the call is a pure function: no step changes series, time_index or *)
(* another argument, and what it returns is determined by its arguments.   *)
C13_ResultDeterminedByArguments ==
    Returned => result = OutcomeOf(series, time_index, method, pct, z_thresh,
                                   min_duration_months)

C13_ArgumentsUntouched == UNCHANGED args

C13_Pure == [](C13_ResultDeterminedByArguments) /\ [][C13_ArgumentsUntouched]_vars

\* percentile mode over a series that is not in ascending order
C13_Witness ==
    /\ Returned
    /\ method = "percentile"
    /\ Len(result.events) >= 1
    /\ \E i \in 1..(Len(series) - 1) : series[i] > series[i + 1]

(* C14: the threshold depends only on the parameter of the chosen method:  *)
(* in zscore mode it is z_thresh and the result is the same for every pct; *)
(* in percentile mode it is percentile(series, pct) and the result is the  *)
(* same for every z_thresh.                                                 *)
C14_OnlyTheChosenParameter ==
    Returned =>
        /\ method = "zscore" =>
              /\ "threshold" \notin defined
              /\ \A i \in 1..Len(series) :
                    result.mask[i] <=> series[i] > z_thresh
              /\ \A q \in Pcts :
                    result = OutcomeOf(series, time_index, method, q, z_thresh,
                                       min_duration_months)
        /\ method = "percentile" =>
              /\ Len(series) > 0 =>
                    threshold = Num100(Percentile100(series, pct))
              /\ \A z \in ZThreshs :
                    result = OutcomeOf(series, time_index, method, pct, z,
                                       min_duration_months)

\* zscore mode with a pct whose percentile would flag other entries
C14_Witness ==
    /\ Returned
    /\ method = "zscore"
    /\ pct # DefaultPct
    /\ Len(series) > 0
    /\ result.mask # MaskFor(series, "percentile", pct, z_thresh)
    /\ Len(result.events) >= 1

(* C18: missing months are not told from present ones: two true entries    *)
(* that are neighbours in the sequence stay in one run when their          *)
(* timestamps are more than a month apart; no entry is added for the       *)
(* missing month and the run is not split there.                            *)
RunOf(m, i) == CHOOSE r \in Runs(m) : r[1] <= i /\ i <= r[2]
C18_MissingMonthDoesNotSplit ==
    Returned =>
        /\ Len(result.mask) = Len(time_index)
        /\ \A i \in 1..(Len(result.mask) - 1) :
              (/\ result.mask[i]
               /\ result.mask[i + 1]
               /\ time_index[i + 1] # NextMonth(time_index[i])) =>
                  LET r == RunOf(result.mask, i)
                      d == MonthsFromTo(time_index[r[1]], time_index[r[2]]) + 1
                      evs == result.events
                  IN /\ \A k \in 1..Len(evs) :
                            /\ evs[k][2] # time_index[i]
                            /\ evs[k][1] # time_index[i + 1]
                     /\ d >= min_duration_months =>
                            \E k \in 1..Len(evs) :
                                evs[k] = <<time_index[r[1]], time_index[r[2]], d>>

\* a run of two entries around a missing month, reported as three months
C18_Witness ==
    /\ Returned
    /\ Len(result.events) = 1
    /\ result.events[1][3] = 3
    /\ Cardinality({i \in 1..Len(result.mask) : result.mask[i]}) = 2
    /\ min_duration_months = 3

(* C20: during the scan, once index i is processed in_event equals         *)
(* mask[i], and whenever in_event holds start_date is the timestamp of the *)
(* first index of the current run: never None, never that of an earlier,   *)
(* closed run.                                                              *)
C20_ScanInvariant ==
    (pc \in {"loop", "after_loop"}) =>
        /\ idx = 0 => ~in_event
        /\ idx >= 1 =>
              /\ in_event = mask[idx]
              /\ in_event =>
                    /\ start_date # None
                    /\ \E a \in 1..idx :
                          /\ start_date = time_index[a]
                          /\ \A j \in a..idx : mask[j]
                          /\ a = 1 \/ ~mask[a - 1]

\* in the second run of the mask, after the first one was closed
C20_Witness ==
    /\ pc = "loop"
    /\ idx = 3
    /\ mask[1] /\ ~mask[2] /\ mask[3]
    /\ in_event
    /\ start_date = time_index[3]

\* the scan stands before a false entry with an event open: the branch of
\* lines 67-72 is the one taken next
AboutToClose ==
    /\ pc = "loop"
    /\ idx < Len(mask)
    /\ in_event
    /\ ~mask[idx + 1]

\* C21: when a run is closed on a true-to-false step at index idx, idx >= 1,
\* so time_index[idx - 1] is the entry just before idx and not the last one
\* reached by a negative index; and every returned event has start <= end and
\* a duration of at least 1.
C21_CloseNeverWrapsAround ==
    /\ AboutToClose =>
            /\ idx >= 1
            /\ idx - 1 >= 0
            /\ EndAtPrevious(time_index, idx) = time_index[idx]
    /\ Returned =>
            \A k \in 1..Len(result.events) :
                /\ ~Before(result.events[k][2], result.events[k][1])
                /\ result.events[k][3] >= 1

\* a call that closed an event at a true-to-false step has returned it
C21_Witness ==
    /\ Returned
    /\ Len(result.events) >= 1
    /\ \E i \in 1..(Len(mask) - 1) :
            /\ mask[i] /\ ~mask[i + 1]
            /\ result.events[1][2] = time_index[i]


\* the number of true entries of m
TrueCount(m) == Cardinality({i \in 1..Len(m) : m[i]})

\* the sum of the durations of the events evs
RECURSIVE DurationSum(_)
DurationSum(evs) ==
    IF Len(evs) = 0 THEN 0 ELSE evs[1][3] + DurationSum(Tail(evs))

\* C22: when time_index is gap-free and as long as the series, the duration
\* of every returned event is the number of true mask entries of its run, and
\* the durations of all returned events sum to at most the number of true
\* entries of the mask.
C22_DurationCountsTrueEntries ==
    ( /\ Returned
      /\ GapFree(time_index)
      /\ Len(time_index) = Len(series) )
    =>
        /\ \A k \in 1..Len(result.events) :
                \E r \in Runs(result.mask) :
                    /\ Spans(result.events[k], r, time_index)
                    /\ result.events[k][3] =
                            Cardinality({i \in r[1]..r[2] : result.mask[i]})
        /\ DurationSum(result.events) <= TrueCount(result.mask)

\* a gap-free call returned an event and dropped a shorter run, so that the
\* durations sum to less than the number of true entries
C22_Witness ==
    /\ Returned
    /\ GapFree(time_index)
    /\ Len(time_index) = Len(series)
    /\ Len(result.events) >= 1
    /\ DurationSum(result.events) < TrueCount(result.mask)


\* the smallest entry of a non-empty series
SeriesMin(s) == CHOOSE v \in {s[i] : i \in 1..Len(s)} : \A i \in 1..Len(s) : v <= s[i]

IsConstant(s) == \A i \in 1..Len(s) : s[i] = s[1]

\* C25: in percentile mode with pct in [0,100] and a non-empty series the
\* threshold is at least the minimum of the series, so an entry equal to the
\* minimum is never flagged: the mask is never all-true, and for a constant
\* series it is all-false and no event is returned.
C25_MinimumNeverFlagged ==
    ( /\ method = "percentile"
      /\ pct \in 0..100
      /\ Len(series) > 0
      /\ "mask" \in defined )
    =>
        /\ ~threshold.nan
        /\ threshold.x100 >= 100 * SeriesMin(series)
        /\ \A i \in 1..Len(series) : series[i] = SeriesMin(series) => ~mask[i]
        /\ \E i \in 1..Len(mask) : ~mask[i]
        /\ IsConstant(series) =>
                /\ \A i \in 1..Len(mask) : ~mask[i]
                /\ events = <<>>
                /\ Returned => result.events = <<>>

\* a percentile call with pct = 0, where the threshold is the minimum itself,
\* returned a mask with a true entry
C25_Witness ==
    /\ Returned
    /\ method = "percentile"
    /\ pct = 0
    /\ Len(series) > 0
    /\ threshold.x100 = 100 * SeriesMin(series)
    /\ \E i \in 1..Len(mask) : result.mask[i]

-----------------------------------------------------------------------------
(* The five analysis scripts, each as the sequence of its steps that can     *)
(* change what the script leaves behind: the CSV load, the computations, the *)
(* model fits and the writes of output files, with the handler around each.  *)

\* yearly[yearly['Year'] < 2025] keeps the years before this one
IncompleteYear == 2025

\* how many complete years the yearly input file may hold
MaxCompleteYears == 2

YearPool == (IncompleteYear - MaxCompleteYears)..IncompleteYear

\* yearly_complete and yearly_all, by their Year column
yearly_complete(ys) == {y \in ys : y < IncompleteYear}
yearly_all(ys) == ys

Scripts == {"events", "ccf", "modeling", "trend", "descriptive"}

\* One step: what it is called, what kind of work it does, the condition
\* under which the script reaches it, what the code around it does with an
\* exception ("wrapped": except + raise RuntimeError(... {e}); "warn": except +
\* print, then on at step resume; "return": except + print, then the script
\* returns; "raw": no handler), the analyses it computes and on which rows,
\* and the analyses whose results it writes to a file.
Step(n, k, g, f, r) ==
    [name |-> n, kind |-> k, guard |-> g, on_fail |-> f, resume |-> r,
     yields |-> {}, rows |-> "none", saves |-> {},
     binds |-> "keep", handler_binds |-> "keep"]

Computes(st, analyses, rws) == [st EXCEPT !.yields = analyses, !.rows = rws]

Saves(st, analyses) == [st EXCEPT !.saves = analyses]

\* the value the step binds to orders when it completes, and the value the
\* handler that catches its exception binds to it ("keep": no assignment)
Binds(st, on_ok, on_caught) ==
    [st EXCEPT !.binds = on_ok, !.handler_binds = on_caught]

\* orders after an assignment of the kind b
Bound(b, old) == IF b = "keep" THEN old ELSE b

\* Detect Heatwave Pollution Events.py
EventsSteps == <<
    Step("load", "load", "always", "wrapped", 0),
    Step("detect_events", "compute", "always", "raw", 0),
    Step("save_anomaly_figure", "save", "always", "warn", 4),
    Step("save_heatwave_calendar", "save", "always", "warn", 5),
    Step("save_pollution_calendar", "save", "always", "warn", 6),
    Step("save_composite", "save", "always", "warn", 7) >>

\* AOD LST Trend Regression CCF Analysis.py
CcfSteps == <<
    Step("load", "load", "always", "wrapped", 0),
    Computes(Step("trend_complete", "compute", "complete2", "raw", 0),
             {"trend"}, "complete"),
    Computes(Step("trend_all", "compute", "all2", "raw", 0),
             {"trend"}, "all"),
    Saves(Step("save_trend_results", "save", "always", "warn", 5), {"trend"}),
    Computes(Step("linregress", "fit", "complete2", "warn", 6),
             {"regression"}, "complete"),
    Saves(Step("save_regression_summary", "save", "reg_ok", "warn", 7),
          {"regression"}),
    Step("save_placeholder_summary", "save", "reg_failed", "raw", 0),
    Step("save_scatter", "save", "always", "warn", 9),
    Computes(Step("residuals_ccf", "compute", "reg_ok", "raw", 0),
             {"residuals", "ccf"}, "complete"),
    Saves(Step("save_ccf_plot", "save", "reg_ok", "warn", 11),
          {"residuals", "ccf"}),
    Step("save_completeness_report", "save", "always", "raw", 0) >>

\* AOD LST Relationship and Timeseries Modeling.py
ModelingSteps == <<
    Step("load", "load", "always", "wrapped", 0),
    Step("correlation_tests", "compute", "always", "raw", 0),
    Step("save_relationship_excel", "save", "always", "warn", 4),
    Step("save_scatter", "save", "always", "warn", 5),
    Step("linear_regression_fit", "fit", "always", "raw", 0),
    Step("save_residuals_plot", "save", "always", "warn", 7),
    Binds(Step("auto_arima", "fit", "always", "warn", 9),
          "selected", "fallback"),
    Binds(Step("write_orders_file", "save", "always", "warn", 9),
          "keep", "fallback"),
    Step("write_fallback_orders", "save", "fallback", "raw", 0),
    Step("sarimax_fit", "fit", "always", "warn", 11),
    Step("stl_fit", "fit", "always", "warn", 15),
    Step("save_STL_Trend", "save", "always", "warn", 15),
    Step("save_STL_Seasonal", "save", "always", "warn", 15),
    Step("save_STL_Residuals", "save", "always", "warn", 15) >>

\* LST AOD Trend Analysis.py
TrendSteps == <<
    Step("load", "load", "always", "return", 0),
    Step("aod_trend_statistics", "fit", "always", "raw", 0),
    Step("save_aod_figure", "save", "always", "raw", 0),
    Step("lst_trend_statistics", "fit", "always", "raw", 0),
    Step("save_lst_figure", "save", "always", "raw", 0),
    Step("save_trend_statistics", "save", "always", "raw", 0) >>

\* Lagos AOD LST Descriptive Analysis.py
DescriptiveSteps == <<
    Step("load", "load", "always", "raw", 0),
    Step("get_summary", "compute", "always", "raw", 0),
    Step("save_monthly_summary", "save", "always", "raw", 0),
    Step("save_seasonal_summary", "save", "always", "raw", 0),
    Step("save_yearly_summary", "save", "always", "raw", 0),
    Step("save_monthly_cycle", "save", "always", "raw", 0),
    Step("save_seasonal_cycle", "save", "always", "raw", 0) >>

StepsOf(s) ==
    CASE s = "events" -> EventsSteps
      [] s = "ccf" -> CcfSteps
      [] s = "modeling" -> ModelingSteps
      [] s = "trend" -> TrendSteps
      [] s = "descriptive" -> DescriptiveSteps

\* the steps that call into pandas, a model library or the file system and
\* so can raise at run time
Fallible(st) == st.kind \in {"load", "fit", "save"}

\* regression_success, line 150
regression_success(dn) == "linregress" \in dn

\* the condition under which the script reaches a step
GuardHolds(st, ys, dn, fl) ==
    CASE st.guard = "always" -> TRUE
      [] st.guard = "complete2" -> Cardinality(yearly_complete(ys)) >= 2
      [] st.guard = "all2" -> Cardinality(yearly_all(ys)) >= 2
      [] st.guard = "reg_ok" -> regression_success(dn)
      [] st.guard = "reg_failed" -> ~regression_success(dn)
      [] st.guard = "fallback" ->
            fl \cap {"auto_arima", "write_orders_file"} # {}

\* the rows a computing step is given
RowsOf(st, ys) ==
    CASE st.rows = "complete" -> yearly_complete(ys)
      [] st.rows = "all" -> yearly_all(ys)
      [] st.rows = "none" -> {}

\* the results a step yields, each with the years it was computed from
ResultsOf(st, ys) == {[analysis |-> a, rows |-> RowsOf(st, ys)] : a \in st.yields}

\* no call of detect_events is in progress
DetectIdle ==
    /\ series = <<>>
    /\ time_index = <<>>
    /\ method = "percentile"
    /\ pct = DefaultPct
    /\ z_thresh = 0
    /\ min_duration_months = 1
    /\ defined = {}
    /\ threshold = NaN
    /\ mask = <<>>
    /\ events = <<>>
    /\ in_event = FALSE
    /\ start_date = None
    /\ idx = 0
    /\ pc = "idle"
    /\ result = NoResult

\* a script is started on some state of its input files
ScriptInit ==
    /\ DetectIdle
    /\ script \in Scripts
    /\ years \in IF script = "ccf" THEN SUBSET YearPool ELSE {{}}
    /\ sp = 1
    /\ done = {}
    /\ failed = {}
    /\ warned = {}
    /\ computed = {}
    /\ saved = {}
    /\ orders = "unbound"
    /\ status = "running"
    /\ exc = "none"
    /\ TrendIdle

AtStep == status = "running" /\ sp \in 1..Len(StepsOf(script))

Current == StepsOf(script)[sp]

\* the if around the step is false: the step is passed over
StepSkipped ==
    /\ AtStep
    /\ ~GuardHolds(Current, years, done, failed)
    /\ sp' = sp + 1
    /\ UNCHANGED <<script, years, done, failed, warned, computed, saved,
                   orders, status, exc>>
    /\ UNCHANGED <<args, locals, pc, result, trend_vars>>

\* the step completes; a write puts on file the results computed so far
StepRuns ==
    /\ AtStep
    /\ GuardHolds(Current, years, done, failed)
    /\ done' = done \cup {Current.name}
    /\ computed' = computed \cup ResultsOf(Current, years)
    /\ saved' = saved \cup {r \in computed : r.analysis \in Current.saves}
    /\ sp' = sp + 1
    /\ UNCHANGED <<script, years, failed, warned, status, exc>>
    /\ orders' = Bound(Current.binds, orders)
    /\ UNCHANGED <<args, locals, pc, result, trend_vars>>

\* the step raises inside a try whose handler prints and goes on
StepFailsCaught ==
    /\ AtStep
    /\ GuardHolds(Current, years, done, failed)
    /\ Fallible(Current)
    /\ Current.on_fail = "warn"
    /\ failed' = failed \cup {Current.name}
    /\ warned' = warned \cup {Current.name}
    /\ sp' = Current.resume
    /\ UNCHANGED <<script, years, done, computed, saved, status, exc>>
    /\ orders' = Bound(Current.handler_binds, orders)
    /\ UNCHANGED <<args, locals, pc, result, trend_vars>>

\* the step raises inside a try whose handler raises RuntimeError(f"...{e}")
StepFailsWrapped ==
    /\ AtStep
    /\ GuardHolds(Current, years, done, failed)
    /\ Fallible(Current)
    /\ Current.on_fail = "wrapped"
    /\ failed' = failed \cup {Current.name}
    /\ status' = "raised"
    /\ exc' = "RuntimeError"
    /\ UNCHANGED <<script, years, sp, done, warned, computed, saved, orders>>
    /\ UNCHANGED <<args, locals, pc, result, trend_vars>>

\* the step raises outside every try: the exception itself ends the script
StepFailsRaw ==
    /\ AtStep
    /\ GuardHolds(Current, years, done, failed)
    /\ Fallible(Current)
    /\ Current.on_fail = "raw"
    /\ failed' = failed \cup {Current.name}
    /\ status' = "raised"
    /\ exc' = "cause"
    /\ UNCHANGED <<script, years, sp, done, warned, computed, saved, orders>>
    /\ UNCHANGED <<args, locals, pc, result, trend_vars>>

\* the step raises inside a try whose handler prints, and the script returns
StepFailsReturn ==
    /\ AtStep
    /\ GuardHolds(Current, years, done, failed)
    /\ Fallible(Current)
    /\ Current.on_fail = "return"
    /\ failed' = failed \cup {Current.name}
    /\ warned' = warned \cup {Current.name}
    /\ status' = "ended"
    /\ UNCHANGED <<script, years, sp, done, computed, saved, orders, exc>>
    /\ UNCHANGED <<args, locals, pc, result, trend_vars>>

\* the last statement of the script has run
ScriptEnds ==
    /\ status = "running"
    /\ sp = Len(StepsOf(script)) + 1
    /\ status' = "ended"
    /\ UNCHANGED <<script, years, sp, done, failed, warned, computed, saved, orders,
                   exc>>
    /\ UNCHANGED <<args, locals, pc, result, trend_vars>>

ScriptNext ==
    \/ StepSkipped
    \/ StepRuns
    \/ StepFailsCaught
    \/ StepFailsWrapped
    \/ StepFailsRaw
    \/ StepFailsReturn
    \/ ScriptEnds

SpecScripts == ScriptInit /\ [][ScriptNext]_vars

-----------------------------------------------------------------------------
(* What the claims about the scripts speak of *)

LoadFailed == "load" \in failed

LoadSucceeded == "load" \in done

Over == status \in {"ended", "raised"}

\* the steps of the running script that write an output file
SaveSteps == {i \in 1..Len(StepsOf(script)) : StepsOf(script)[i].kind = "save"}

Attempted(i) == StepsOf(script)[i].name \in done \cup failed

\* C15: in every script a failure to load an input CSV ends the script with a
\* raised error that wraps the cause; no later step of the script has run and
\* the script has not ended normally.
C15_LoadFailureIsFatal ==
    LoadFailed =>
        /\ status = "raised"
        /\ exc = "RuntimeError"
        /\ done = {}
        /\ failed = {"load"}

\* C16: once the data is loaded, a failure of any later step (a model fit, a
\* plot save, an Excel or CSV export) is caught at that step and reported as a
\* warning, and no error leaves the script.
C16_DownstreamFailureIsCaught ==
    LoadSucceeded =>
        /\ status # "raised"
        /\ failed \subseteq warned

\* C17: every save of an output is wrapped on its own: when the script is over
\* and the save of one output failed, every later output the script was to
\* write has been attempted; so after a failed save of the STL trend plot the
\* STL seasonal and STL residual plots have been attempted.
C17_LaterOutputsStillAttempted ==
    Over =>
        \A i \in SaveSteps : \A j \in SaveSteps :
            ( /\ i < j
              /\ StepsOf(script)[i].name \in failed
              /\ GuardHolds(StepsOf(script)[j], years, done, failed) )
            => Attempted(j)

\* C19: in the yearly trend/regression/CCF script no trend, regression,
\* residual or CCF result that is computed and saved was computed from a row
\* of the year 2025.
C19_NoSavedResultUses2025 ==
    \A r \in saved :
        r.analysis \in {"trend", "regression", "residuals", "ccf"}
            => IncompleteYear \notin r.rows

\* the script stands before its step named n
AtNamed(n) == AtStep /\ Current.name = n

Tried(n) == n \in done \cup failed

\* C23: in the modeling script the SARIMAX fit is always attempted, with
\* orders that are bound: those selected by auto_arima whenever auto_arima
\* succeeded, the fallback orders exactly when auto_arima failed; and a failed
\* write of SARIMAX_orders.txt neither puts the fallback in the place of the
\* selected orders nor ends the script.
C23_SarimaxOrdersDefined ==
    script = "modeling" =>
        /\ AtNamed("sarimax_fit") =>
                /\ orders \in {"selected", "fallback"}
                /\ "auto_arima" \in done => orders = "selected"
                /\ orders = "fallback" <=> "auto_arima" \in failed
        /\ "write_orders_file" \in failed =>
                /\ orders = "selected"
                /\ status # "raised"
        /\ (Over /\ Tried("auto_arima")) => Tried("sarimax_fit")

-----------------------------------------------------------------------------
(* detect_trend of the yearly trend/regression/CCF script: one call, with  *)
(* the pymannkendall library as a source of results and of exceptions.     *)

\* the longest series a call is given
MaxTrendLen == 3

\* a float: val is the value times 10000; nan is np.nan
np_nan == [nan |-> TRUE, val |-> 0]
Float(v) == [nan |-> FALSE, val |-> v]

\* the p-values mk.original_test may return, times 10000: 0, 1 and the
\* values at and next to 0.001, 0.01 and 0.05
PValues == {0, 9, 10, 11, 99, 100, 101, 499, 500, 501, 10000}

\* result.trend of pymannkendall
MkTrends == {"increasing", "decreasing", "no trend"}

\* Sen's slopes, times 10000
Slopes == {-1, 0, 1}

Labels == {"AOD", "LST"}

DataPeriods == {"Complete", "2017-2024 (Complete)", "2017-2025 (2025 Incomplete)"}

\* str(e) of what the library raises
Messages == {"original_test failed", "sens_slope failed"}

\* lines 86-93, with strict comparisons
StarsStrict(p) ==
    IF p < 10 THEN "***"
    ELSE IF p < 100 THEN "**"
    ELSE IF p < 500 THEN "*"
    ELSE "ns"

\* lines 86-93: p is result.p times 10000
Stars(p) ==
    IF p <= 10 THEN "***"
    ELSE IF p <= 100 THEN "**"
    ELSE IF p <= 500 THEN "*"
    ELSE "ns"

\* the dict of lines 73-80, 95-102 and 104-111; Trend as the parts of its text
TrendRecord(lab, trend, p, sig, slope, period) ==
    [Variable |-> lab, Trend |-> trend, p_value |-> p, Significance |-> sig,
     Sens_Slope |-> slope, Data_Period |-> period]

ScriptIdle ==
    /\ script = "none"
    /\ years = {}
    /\ sp = 0
    /\ done = {}
    /\ failed = {}
    /\ warned = {}
    /\ computed = {}
    /\ saved = {}
    /\ orders = "unbound"
    /\ status = "idle"
    /\ exc = "none"

\* detect_trend is called on a series of some length
TrendInit ==
    /\ DetectIdle
    /\ ScriptIdle
    /\ trend_len \in 0..MaxTrendLen
    /\ label \in Labels
    /\ data_completeness \in DataPeriods
    /\ mk_called = FALSE
    /\ mk_result = NoResult
    /\ trend_exc = ""
    /\ trend_pc = "entry"
    /\ trend_record = NoResult

\* lines 72-80
InsufficientData ==
    /\ trend_pc = "entry"
    /\ trend_len < 2
    /\ trend_record' = TrendRecord(label, <<"Insufficient data">>, np_nan,
                                   "N/A", np_nan, data_completeness)
    /\ trend_pc' = "returned"
    /\ UNCHANGED <<trend_len, label, data_completeness, mk_called, mk_result,
                   trend_exc>>
    /\ UNCHANGED <<args, locals, pc, result, script_vars>>

\* line 83, the test returns
MkTest ==
    /\ trend_pc = "entry"
    /\ ~(trend_len < 2)
    /\ mk_called' = TRUE
    /\ \E t \in MkTrends : \E p \in PValues :
            mk_result' = [kind |-> "return", trend |-> t, p |-> p]
    /\ trend_pc' = "tested"
    /\ UNCHANGED <<trend_len, label, data_completeness, trend_exc, trend_record>>
    /\ UNCHANGED <<args, locals, pc, result, script_vars>>

\* the handler of lines 103-111, entered with the exception of message msg
Handled(msg) ==
    /\ trend_exc' = msg
    /\ trend_record' = TrendRecord(label, <<"Error: ", msg>>, np_nan, "N/A",
                                   np_nan, data_completeness)
    /\ trend_pc' = "returned"

\* line 83, the test raises
MkTestRaises ==
    /\ trend_pc = "entry"
    /\ ~(trend_len < 2)
    /\ mk_called' = TRUE
    /\ Handled("original_test failed")
    /\ UNCHANGED <<trend_len, label, data_completeness, mk_result>>
    /\ UNCHANGED <<args, locals, pc, result, script_vars>>

\* lines 84-102, the slope is computed
SensSlope ==
    /\ trend_pc = "tested"
    /\ \E sl \in Slopes :
            trend_record' = TrendRecord(label, <<mk_result.trend>>,
                                        Float(mk_result.p), Stars(mk_result.p),
                                        Float(sl), data_completeness)
    /\ trend_pc' = "returned"
    /\ UNCHANGED <<trend_len, label, data_completeness, mk_called, mk_result,
                   trend_exc>>
    /\ UNCHANGED <<args, locals, pc, result, script_vars>>

\* line 84, mk.sens_slope raises
SensSlopeRaises ==
    /\ trend_pc = "tested"
    /\ Handled("sens_slope failed")
    /\ UNCHANGED <<trend_len, label, data_completeness, mk_called, mk_result>>
    /\ UNCHANGED <<args, locals, pc, result, script_vars>>

TrendNext ==
    \/ InsufficientData
    \/ MkTest
    \/ MkTestRaises
    \/ SensSlope
    \/ SensSlopeRaises

SpecTrend == TrendInit /\ [][TrendNext]_vars

TrendReturned == trend_pc = "returned"

\* the NaN / 'N/A' fields of the two records without a test result
NoTestFields(rec) ==
    /\ rec.p_value = np_nan
    /\ rec.Sens_Slope = np_nan
    /\ rec.Significance = "N/A"

\* C24: detect_trend never raises. For fewer than 2 values it returns Trend
\* 'Insufficient data' with NaN p-value and slope and Significance 'N/A', and
\* the Mann-Kendall test is not called; when the test or Sen's slope fails it
\* returns Trend 'Error: ...' with the same NaN and 'N/A' fields; otherwise
\* Significance is '***' for p <= 0.001, '**' for 0.001 < p <= 0.01, '*' for
\* 0.01 < p <= 0.05 and 'ns' for p > 0.05.
C24_DetectTrendNeverRaises ==
    /\ trend_pc # "raised"
    /\ trend_len < 2 => ~mk_called
    /\ TrendReturned =>
        /\ trend_record.Variable = label
        /\ trend_record.Data_Period = data_completeness
        /\ trend_len < 2 =>
                /\ trend_record.Trend = <<"Insufficient data">>
                /\ NoTestFields(trend_record)
        /\ (trend_len >= 2 /\ trend_exc # "") =>
                /\ trend_record.Trend = <<"Error: ", trend_exc>>
                /\ NoTestFields(trend_record)
        /\ (trend_len >= 2 /\ trend_exc = "") =>
                LET p == mk_result.p
                    sig == trend_record.Significance
                IN  /\ trend_record.Trend = <<mk_result.trend>>
                    /\ trend_record.p_value = Float(p)
                    /\ p <= 10 => sig = "***"
                    /\ (10 < p /\ p <= 100) => sig = "**"
                    /\ (100 < p /\ p <= 500) => sig = "*"
                    /\ p > 500 => sig = "ns"

\* a call returned with p exactly 0.05, the last value that earns a star
C24_Witness ==
    /\ TrendReturned
    /\ trend_len >= 2
    /\ trend_exc = ""
    /\ mk_result.p = 500
    /\ trend_record.Significance = "*"

=============================================================================
